---- MODULE Spec2Model ----
(***************************************************************************)
(* Model of src/alphaVersion.py: the live-transcription session.            *)
(*                                                                          *)
(* Threads: thread 0 is the main thread (module start-up, Tk mainloop,      *)
(* on_closing); thread h in 1..MaxConns is the receive thread started by    *)
(* connect_and_transcribe for the h-th connection it opened; the capture    *)
(* thread (listen_and_stream / restart_stream) has its own position cpc.    *)
(* A websocket handle is the number of the create_connection call that      *)
(* returned it (a call that raised leaves its number unused).               *)
(***************************************************************************)
EXTENDS Integers, Sequences, FiniteSets, TLC

\* ---- bounds of the model ------------------------------------------------
MaxConns == 3       \* calls of create_connection over a run
MaxEvents == 3      \* messages ws.recv() may return over a run
MaxRestarts == 1    \* calls of restart_stream over a run

\* Transcript texts the service may send (no line breaks, not empty).
Transcripts == {"hel", "hello", "hello there"}

\* What ws.recv() returns, decoded: a partial or final result, a message
\* without a "results" field, or a message whose decoding raises (invalid
\* JSON, an empty results list, a result without alternatives).
Messages ==
    [kind : {"partial", "final"}, text : Transcripts]
        \cup {[kind |-> "noresults", text |-> ""],
              [kind |-> "malformed", text |-> ""]}

NoMessage == [kind |-> "none", text |-> ""]

\* The display writes of lines 185-186 and of lines 194-195, as commands.
CommitLine(text) == [op |-> "CommitLine", text |-> text]
ReplaceTrailingLine(text) == [op |-> "ReplaceTrailingLine", text |-> text]

Handles == 1..MaxConns
Threads == 0..MaxConns

VARIABLES
    pc,            \* pc[t]: position of main thread 0 and receive thread h
    cws,           \* cws[t]: local ws of thread t's connect_and_transcribe call
    attempts,      \* calls of create_connection so far
    wsOpen,        \* handles whose socket is connected
    wsStarted,     \* handles on which the start message was sent
    ws,            \* module global ws (line 275), 0 before it is assigned
    last_partial,  \* last_partial[h]: local of receive thread h
    last_final,    \* last_final[h]: local of receive thread h
    result,        \* result[h]: the message receive thread h is processing
    resultNo,      \* resultNo[h]: its number in the order recv returned messages
    display,       \* text_box content: sequence of lines, a line a sequence of inserted texts
    nrecv,         \* messages ws.recv() has returned so far, over all handles
    out,           \* the latest pass through lines 173-201: thread, message, display commands
    lastNo,        \* number of the message whose command was applied to the display last
    cpc,           \* position of the capture thread
    capWs,         \* the ws argument of listen_and_stream / restart_stream
    restarts,      \* calls of restart_stream so far (none ever returns)
    stream,        \* module global stream: "open" or "closed"
    audioLive,     \* FALSE once audio.terminate() ran
    rootAlive,     \* FALSE once root.destroy() ran
    capErr,        \* the exception e of line 229 in the innermost frame: none, device, send
    staleTried     \* history: handles on which a frame send was attempted when stale

vars == <<pc, cws, attempts, wsOpen, wsStarted, ws, last_partial,
          last_final, result, resultNo, display, nrecv, out, lastNo, cpc, capWs, restarts,
          stream, audioLive, rootAlive, capErr, staleTried>>

connVars == <<cws, attempts, wsOpen, wsStarted>>
recvVars == <<last_partial, last_final, result, resultNo, display, nrecv, out, lastNo>>
capVars == <<cpc, capWs, restarts, capErr, staleTried>>
audioVars == <<stream, audioLive>>

\* ---- the text widget ------------------------------------------------------
\* text_box.delete("end-1c linestart", "end"): removes the last logical line
\* (and, when it is not the first line, the line break before it).
TextDeleteTrailingLine(d) ==
    IF Len(d) > 1 THEN SubSeq(d, 1, Len(d) - 1) ELSE << <<>> >>

\* text_box.insert("end", s), s without a line break: appends to the last line.
TextInsertEnd(d, s) == [d EXCEPT ![Len(d)] = Append(@, s)]

\* The text inserted for a final result (line 186).
FinalText(transcript) == transcript \o " "

\* The text inserted for a partial result (line 195).
PartialText(transcript) == transcript

\* Variant of FinalIsNew without the comparison: every final is shown.
FinalAlwaysNew(transcript, lf) == TRUE

\* Line 184: a final result is shown unless it repeats the last final.
FinalIsNew(transcript, lf) == transcript # lf

\* Variant of PartialIsNew without the comparison: every partial is shown.
PartialAlwaysNew(transcript, lp) == TRUE

\* Line 193: a partial result is shown unless it repeats the last partial.
PartialIsNew(transcript, lp) == transcript # lp

\* Variant of PartialAfterFinal that forgets to clear last_partial.
PartialKept(lp) == lp

\* Line 188: what a shown final leaves in last_partial.
PartialAfterFinal(lp) == ""

\* Variant of Raises without the guard of line 175: a message that has no
\* "results" field raises a KeyError at line 176.
RaisesWithoutResults(m) == m.kind \in {"malformed", "noresults"}

\* Lines 173-177: json.loads or the indexing of the results raises.
Raises(m) == m.kind = "malformed"

\* Variant of AfterReconnect in which the handler sits inside the loop, so
\* the old thread goes on receiving after it reconnected.
LoopAgain == "recv"

\* Lines 205 and 209: after connect_and_transcribe returns in the handler,
\* receive_transcription falls off its end and the thread finishes.
AfterReconnect == "done"

\* The handle most recently returned by connect_and_transcribe (0: none yet).
Latest ==
    LET started == {h \in Handles : pc[h] # "unstarted"}
    IN IF started = {} THEN 0 ELSE CHOOSE h \in started : \A g \in started : g <= h

\* All daemon threads are gone once the interpreter has exited.
Running == pc[0] # "exited"

Init ==
    /\ pc = [t \in Threads |-> IF t = 0 THEN "cc_create" ELSE "unstarted"]
    /\ cws = [t \in Threads |-> 0]
    /\ attempts = 0
    /\ wsOpen = {}
    /\ wsStarted = {}
    /\ ws = 0
    /\ last_partial = [h \in Handles |-> ""]
    /\ last_final = [h \in Handles |-> ""]
    /\ result = [h \in Handles |-> NoMessage]
    /\ resultNo = [h \in Handles |-> 0]
    /\ display = << <<>> >>
    /\ nrecv = 0
    /\ out = [by |-> 0, msg |-> NoMessage, cmds |-> <<>>]
    /\ lastNo = 0
    /\ cpc = "unstarted"
    /\ capWs = 0
    /\ restarts = 0
    /\ stream = "open"
    /\ audioLive = TRUE
    /\ rootAlive = TRUE
    /\ capErr = "none"
    /\ staleTried = {}

\* ---- connect_and_transcribe (lines 128-148), called by thread t -----------
\* create_connection succeeds (line 130).
CreateConnection(t) ==
    /\ Running
    /\ pc[t] = "cc_create"
    /\ attempts < MaxConns
    /\ attempts' = attempts + 1
    /\ wsOpen' = wsOpen \cup {attempts + 1}
    /\ cws' = [cws EXCEPT ![t] = attempts + 1]
    /\ pc' = [pc EXCEPT ![t] = "cc_start"]
    /\ UNCHANGED <<wsStarted, ws, recvVars, capVars, audioVars, rootAlive>>

\* create_connection raises: print, sleep 2, next iteration (lines 146-148).
CreateConnectionFails(t) ==
    /\ Running
    /\ pc[t] = "cc_create"
    /\ attempts < MaxConns
    /\ attempts' = attempts + 1
    /\ UNCHANGED <<pc, cws, wsOpen, wsStarted, ws, recvVars, capVars,
                   audioVars, rootAlive>>

\* ws.send(init_message) succeeds, the receive thread is started and ws is
\* returned (lines 140-144). The caller is the main thread (line 275), which
\* assigns the global ws, or a receive thread (lines 205, 209), which drops
\* the returned handle and finishes.
StartAndSpawn(t) ==
    /\ Running
    /\ pc[t] = "cc_start"
    /\ cws[t] \in wsOpen
    /\ wsStarted' = wsStarted \cup {cws[t]}
    /\ pc' = [pc EXCEPT ![cws[t]] = "recv",
                        ![t] = IF t = 0 THEN "start_capture" ELSE AfterReconnect]
    /\ last_partial' = [h \in Handles |->
                           IF h = cws[t] \/ pc'[h] = "done" THEN "" ELSE last_partial[h]]
    /\ last_final' = [h \in Handles |->
                         IF h = cws[t] \/ pc'[h] = "done" THEN "" ELSE last_final[h]]
    /\ result' = [h \in Handles |->
                     IF pc'[h] = "done" THEN NoMessage ELSE result[h]]
    /\ resultNo' = [h \in Handles |-> IF pc'[h] = "done" THEN 0 ELSE resultNo[h]]
    /\ ws' = IF t = 0 THEN cws[t] ELSE ws
    /\ UNCHANGED <<cws, attempts, wsOpen, display, nrecv, out, lastNo,
                   capVars, audioVars, rootAlive>>

\* Variant of StartFails without the retry: the handler returns the handle
\* it has, no receive thread is started.
StartFailsGivesUp(t) ==
    /\ Running
    /\ pc[t] = "cc_start"
    /\ wsOpen' = wsOpen \ {cws[t]}
    /\ pc' = [pc EXCEPT ![t] = IF t = 0 THEN "start_capture" ELSE "done"]
    /\ ws' = IF t = 0 THEN cws[t] ELSE ws
    /\ UNCHANGED <<cws, attempts, wsStarted, recvVars, capVars, audioVars,
                   rootAlive>>

\* Variant of StartFails in which the receive thread is started before the
\* start message is sent, so a failed send leaves a thread on the handle.
StartFailsAfterSpawn(t) ==
    /\ Running
    /\ pc[t] = "cc_start"
    /\ wsOpen' = wsOpen \ {cws[t]}
    /\ pc' = [pc EXCEPT ![t] = "cc_create", ![cws[t]] = "recv"]
    /\ UNCHANGED <<cws, attempts, wsStarted, ws, recvVars, capVars, audioVars,
                   rootAlive>>

\* ws.send(init_message) raises because the peer is gone: sleep 2, next
\* iteration with a fresh create_connection (lines 146-148).
StartFails(t) ==
    /\ Running
    /\ pc[t] = "cc_start"
    /\ wsOpen' = wsOpen \ {cws[t]}
    /\ pc' = [pc EXCEPT ![t] = "cc_create"]
    /\ UNCHANGED <<cws, attempts, wsStarted, ws, recvVars, capVars, audioVars,
                   rootAlive>>

\* ---- module start-up (lines 275-278) ---------------------------------------
\* threading.Thread(target=listen_and_stream, args=(ws,)).start(); mainloop.
StartCapture ==
    /\ pc[0] = "start_capture"
    /\ cpc = "unstarted"
    /\ cpc' = "read"
    /\ capWs' = ws
    /\ pc' = [pc EXCEPT ![0] = "mainloop"]
    /\ UNCHANGED <<connVars, ws, recvVars, restarts, capErr, staleTried,
                   audioVars, rootAlive>>

\* ---- receive_transcription (lines 166-209), thread h on handle h -----------
\* ws.recv() returns a message (line 172).
Recv(h) ==
    /\ Running
    /\ pc[h] = "recv"
    /\ h \in wsOpen
    /\ nrecv < MaxEvents
    /\ \E m \in Messages : result' = [result EXCEPT ![h] = m]
    /\ nrecv' = nrecv + 1
    /\ resultNo' = [resultNo EXCEPT ![h] = nrecv + 1]
    /\ pc' = [pc EXCEPT ![h] = "process"]
    /\ UNCHANGED <<connVars, ws, last_partial, last_final, display, out, lastNo,
                   capVars, audioVars, rootAlive>>

\* ws.recv() raises WebSocketConnectionClosedException: the socket is closed;
\* the handler prints and calls connect_and_transcribe (lines 203-205).
RecvClosed(h) ==
    /\ Running
    /\ pc[h] = "recv"
    /\ wsOpen' = wsOpen \ {h}
    /\ pc' = [pc EXCEPT ![h] = "cc_create"]
    /\ UNCHANGED <<cws, attempts, wsStarted, ws, recvVars, capVars,
                   audioVars, rootAlive>>

\* Lines 173-201 for the message just received.
Process(h) ==
    /\ Running
    /\ pc[h] = "process"
    /\ LET m == result[h]
           shown == m.kind \in {"partial", "final"}
       IN
       IF Raises(m) \/ (shown /\ ~rootAlive)
       THEN \* json.loads, the indexing or a text_box call raises (line 206)
            /\ pc' = [pc EXCEPT ![h] = "sleep"]
            /\ out' = [by |-> h, msg |-> m, cmds |-> <<>>]
            /\ UNCHANGED <<last_partial, last_final, display, lastNo>>
       ELSE
            /\ pc' = [pc EXCEPT ![h] = "recv"]
            /\ IF m.kind = "final" /\ FinalIsNew(m.text, last_final[h])
               THEN /\ display' = TextInsertEnd(TextDeleteTrailingLine(display),
                                                FinalText(m.text))
                    /\ last_final' = [last_final EXCEPT ![h] = m.text]
                    /\ last_partial' =
                          [last_partial EXCEPT ![h] = PartialAfterFinal(@)]
                    /\ out' = [by |-> h, msg |-> m,
                               cmds |-> <<CommitLine(FinalText(m.text))>>]
                    /\ lastNo' = resultNo[h]
               ELSE IF m.kind = "partial" /\ PartialIsNew(m.text, last_partial[h])
               THEN /\ display' = TextInsertEnd(TextDeleteTrailingLine(display),
                                                PartialText(m.text))
                    /\ last_partial' = [last_partial EXCEPT ![h] = m.text]
                    /\ out' = [by |-> h, msg |-> m,
                               cmds |-> <<ReplaceTrailingLine(PartialText(m.text))>>]
                    /\ lastNo' = resultNo[h]
                    /\ UNCHANGED last_final
               ELSE /\ out' = [by |-> h, msg |-> m, cmds |-> <<>>]
                    /\ UNCHANGED <<last_partial, last_final, display, lastNo>>
    /\ UNCHANGED <<connVars, ws, result, resultNo, nrecv, capVars, audioVars,
                   rootAlive>>

\* The generic handler: print, sleep 2, call connect_and_transcribe
\* (lines 206-209). The old socket is left as it is.
ErrorSleep(h) ==
    /\ Running
    /\ pc[h] = "sleep"
    /\ pc' = [pc EXCEPT ![h] = "cc_create"]
    /\ UNCHANGED <<connVars, ws, recvVars, capVars, audioVars, rootAlive>>

\* ---- listen_and_stream (lines 225-231) -------------------------------------
\* stream.read returns a frame (line 227).
CaptureRead ==
    /\ Running
    /\ cpc = "read"
    /\ stream = "open"
    /\ cpc' = "send"
    /\ UNCHANGED <<pc, connVars, ws, recvVars, capWs, restarts, capErr,
                   staleTried, audioVars, rootAlive>>

\* stream.read raises (device error, or the stream is closed): the handler
\* calls restart_stream (lines 229-231).
CaptureReadFails ==
    /\ Running
    /\ cpc = "read"
    /\ restarts < MaxRestarts
    /\ restarts' = restarts + 1
    /\ capErr' = "device"
    /\ cpc' = "restart_close"
    /\ UNCHANGED <<pc, connVars, ws, recvVars, capWs, staleTried, audioVars,
                   rootAlive>>

\* ws.send(data, opcode=0x2) on a connected socket (line 228).
CaptureSend ==
    /\ Running
    /\ cpc = "send"
    /\ capWs \in wsOpen
    /\ staleTried' = IF capWs # Latest THEN staleTried \cup {capWs} ELSE staleTried
    /\ cpc' = "read"
    /\ UNCHANGED <<pc, connVars, ws, recvVars, capWs, restarts, capErr,
                   audioVars, rootAlive>>

\* ws.send raises on a closed socket: the handler calls restart_stream.
CaptureSendFails ==
    /\ Running
    /\ cpc = "send"
    /\ capWs \notin wsOpen
    /\ restarts < MaxRestarts
    /\ restarts' = restarts + 1
    /\ staleTried' = IF capWs # Latest THEN staleTried \cup {capWs} ELSE staleTried
    /\ capErr' = "send"
    /\ cpc' = "restart_close"
    /\ UNCHANGED <<pc, connVars, ws, recvVars, capWs, audioVars, rootAlive>>

\* ---- restart_stream (lines 246-253) ----------------------------------------
\* stream.stop_stream(); stream.close(); sleep 1 (lines 247-249). On a stream
\* that is already closed the calls raise and the thread ends (or return
\* silently, see RestartCloseSilent).
RestartClose ==
    /\ Running
    /\ cpc = "restart_close"
    /\ IF stream = "open"
       THEN /\ stream' = "closed"
            /\ cpc' = "restart_open"
       ELSE /\ cpc' = "dead"
            /\ UNCHANGED stream
    /\ UNCHANGED <<pc, connVars, ws, recvVars, capWs, restarts, capErr,
                   staleTried, audioLive, rootAlive>>

\* stream.stop_stream(); stream.close() on a stream that on_closing has
\* closed already, with a PyAudio whose calls return silently on a closed
\* stream (they raise with others, see RestartClose): the restart goes on.
RestartCloseSilent ==
    /\ Running
    /\ cpc = "restart_close"
    /\ stream = "closed"
    /\ cpc' = "restart_open"
    /\ UNCHANGED <<pc, connVars, ws, recvVars, capWs, restarts, capErr,
                   staleTried, audioVars, rootAlive>>

\* Variant of RestartOpen without line 253: the stream is reopened and
\* restart_stream returns, which ends the thread.
RestartOpenNoResume ==
    /\ Running
    /\ cpc = "restart_open"
    /\ audioLive
    /\ stream' = "open"
    /\ capErr' = "none"
    /\ cpc' = "dead"
    /\ UNCHANGED <<pc, connVars, ws, recvVars, capWs, restarts, staleTried,
                   audioLive, rootAlive>>

\* stream = audio.open(...); listen_and_stream(ws) (lines 250-253).
RestartOpen ==
    /\ Running
    /\ cpc = "restart_open"
    /\ audioLive
    /\ stream' = "open"
    /\ capErr' = "none"
    /\ cpc' = "read"
    /\ UNCHANGED <<pc, connVars, ws, recvVars, capWs, restarts, staleTried,
                   audioLive, rootAlive>>

\* audio.open raises (device unavailable, or PyAudio terminated): nothing
\* catches it and the thread ends.
RestartOpenFails ==
    /\ Running
    /\ cpc = "restart_open"
    /\ cpc' = "dead"
    /\ UNCHANGED <<pc, connVars, ws, recvVars, capWs, restarts, capErr,
                   staleTried, audioVars, rootAlive>>

\* ---- on_closing (lines 265-269) --------------------------------------------
\* stream.stop_stream(); stream.close() (lines 265-266).
OnClosingStop ==
    /\ pc[0] = "mainloop"
    /\ stream = "open"
    /\ stream' = "closed"
    /\ pc' = [pc EXCEPT ![0] = "oc_terminate"]
    /\ UNCHANGED <<connVars, ws, recvVars, capVars, audioLive, rootAlive>>

\* stream.stop_stream() raises because restart_stream has the stream closed
\* (between its lines 248 and 250): on_closing ends at line 265.
OnClosingRaises ==
    /\ pc[0] = "mainloop"
    /\ stream = "closed"
    /\ pc' = [pc EXCEPT ![0] = "oc_raised"]
    /\ UNCHANGED <<connVars, ws, recvVars, capVars, audioVars, rootAlive>>

\* stream.stop_stream(); stream.close() return silently on the stream that
\* restart_stream has closed (PyAudio versions differ, see OnClosingRaises).
OnClosingStopSilent ==
    /\ pc[0] = "mainloop"
    /\ stream = "closed"
    /\ pc' = [pc EXCEPT ![0] = "oc_terminate"]
    /\ UNCHANGED <<connVars, ws, recvVars, capVars, audioVars, rootAlive>>

\* Tk reports the exception of the callback and the mainloop goes on; the
\* window is still there.
OnClosingAborted ==
    /\ pc[0] = "oc_raised"
    /\ pc' = [pc EXCEPT ![0] = "mainloop"]
    /\ UNCHANGED <<connVars, ws, recvVars, capVars, audioVars, rootAlive>>

\* audio.terminate(); print; root.destroy() (lines 267-269). terminate
\* closes every stream the PyAudio instance still has open.
OnClosingDestroy ==
    /\ pc[0] = "oc_terminate"
    /\ audioLive' = FALSE
    /\ stream' = "closed"
    /\ rootAlive' = FALSE
    /\ pc' = [pc EXCEPT ![0] = "destroyed"]
    /\ UNCHANGED <<connVars, ws, recvVars, capVars>>

\* root.mainloop() returns (line 278), the interpreter exits and takes the
\* daemon threads and their sockets with it.
ProcessExit ==
    /\ pc[0] = "destroyed"
    /\ pc' = [pc EXCEPT ![0] = "exited"]
    /\ wsOpen' = {}
    /\ UNCHANGED <<cws, attempts, wsStarted, ws, recvVars, capVars,
                   audioVars, rootAlive>>

Next ==
    \/ \E t \in Threads : CreateConnection(t)
    \/ \E t \in Threads : CreateConnectionFails(t)
    \/ \E t \in Threads : StartAndSpawn(t)
    \/ \E t \in Threads : StartFails(t)
    \/ StartCapture
    \/ \E h \in Handles : Recv(h)
    \/ \E h \in Handles : RecvClosed(h)
    \/ \E h \in Handles : Process(h)
    \/ \E h \in Handles : ErrorSleep(h)
    \/ CaptureRead
    \/ CaptureReadFails
    \/ CaptureSend
    \/ CaptureSendFails
    \/ RestartClose
    \/ RestartOpen
    \/ RestartOpenFails

\* The session while the window stays open.
Spec == Init /\ [][Next]_vars

\* The session with the window-close handler.
NextShutdown ==
    \/ Next
    \/ RestartCloseSilent
    \/ OnClosingStop
    \/ OnClosingStopSilent
    \/ OnClosingRaises
    \/ OnClosingAborted
    \/ OnClosingDestroy
    \/ ProcessExit

SpecShutdown == Init /\ [][NextShutdown]_vars

\* ---- shared vocabulary of the properties ------------------------------------
\* Receive thread h completes one pass through lines 173-201 in this step.
ProcessStep(h) == pc[h] = "process" /\ pc'[h] # "process"

\* The texts on the trailing line of the display.
TrailingLine == display[Len(display)]
TrailingTexts == {TrailingLine[i] : i \in DOMAIN TrailingLine}

\* All texts shown by a display d.
Shown(d) == UNION {{d[l][i] : i \in DOMAIN d[l]} : l \in DOMAIN d}

\* The renderings of final results and of partial results.
FinalRenderings == {t \o " " : t \in Transcripts}
PartialRenderings == Transcripts

\* A receive thread is inside its loop (lines 171-201).
InReceiveLoop(h) == pc[h] \in {"recv", "process"}

\* A receive thread is in an exception handler of lines 203-209, reconnecting.
Reconnecting(h) == pc[h] \in {"sleep", "cc_create", "cc_start"}

C2_NoStalePartialAfterFinal ==
    out.msg.kind = "final" => TrailingTexts \cap PartialRenderings = {}

\* ---- C3 ---------------------------------------------------------------------
\* C3: a final rendering that is in the display stays in the display, whatever
\* is processed later.
C3_CommittedTextStays ==
    [][(Shown(display) \cap FinalRenderings) \subseteq Shown(display')]_vars

\* ---- C4 ---------------------------------------------------------------------
\* C4: a partial result whose text differs from last_partial emits exactly
\* ReplaceTrailingLine(t), sets last_partial to t and puts t alone on the
\* trailing line; one whose text equals last_partial emits nothing and leaves
\* last_partial, last_final and the display unchanged.
C4_PartialRedraw ==
    [][\A h \in Handles :
        (ProcessStep(h) /\ result[h].kind = "partial")
            => IF result[h].text # last_partial[h]
               THEN /\ out'.cmds = <<ReplaceTrailingLine(result[h].text)>>
                    /\ last_partial'[h] = result[h].text
                    /\ display'[Len(display')] = <<result[h].text>>
                    /\ last_final'[h] = last_final[h]
               ELSE /\ out'.cmds = <<>>
                    /\ UNCHANGED <<last_partial, last_final, display>>]_vars

\* A repeated partial result was processed and suppressed while its first
\* rendering is on the display.
C4_Witness ==
    /\ out.msg.kind = "partial"
    /\ out.cmds = <<>>
    /\ out.by \in Handles
    /\ last_partial[out.by] = out.msg.text
    /\ TrailingLine = <<out.msg.text>>

\* ---- C5 ---------------------------------------------------------------------
\* C5: when a receive loop processes Final(t) right after it processed
\* Final(t), the second pass emits nothing and leaves last_final, last_partial
\* and the display unchanged, and the first pass emitted at most the one
\* CommitLine(t + " ").
C5_FinalIdempotent ==
    [][\A h \in Handles :
        (ProcessStep(h) /\ result[h].kind = "final"
            /\ out.by = h /\ out.msg = result[h])
            => /\ out'.cmds = <<>>
               /\ UNCHANGED <<last_final, last_partial, display>>
               /\ out.cmds \in {<<>>, <<CommitLine(result[h].text \o " ")>>}]_vars

\* The same final was delivered again and suppressed while its rendering is
\* the trailing line.
C5_Witness ==
    /\ out.msg.kind = "final"
    /\ out.cmds = <<>>
    /\ out.by \in Handles
    /\ last_final[out.by] = out.msg.text
    /\ last_partial[out.by] = ""
    /\ TrailingLine = <<out.msg.text \o " ">>

\* ---- C6 ---------------------------------------------------------------------
\* C6: every display command is applied for a message received later than the
\* message of the command applied before it (commands follow the order of
\* reception, none twice), and while one receive thread applies its command no
\* other receive thread is between receiving a message and writing it.
C6_DisplayOrder ==
    [][\A h \in Handles :
        ProcessStep(h)
            => /\ out'.cmds # <<>> => (resultNo[h] > lastNo /\ lastNo' = resultNo[h])
               /\ out'.cmds = <<>> => lastNo' = lastNo
               /\ \A g \in Handles \ {h} : pc[g] # "process"]_vars

\* A receive loop started by a reconnect applied a command for the third
\* message of the run, after the first loop had ended.
C6_Witness ==
    /\ out.by \in Handles \ {1}
    /\ out.cmds # <<>>
    /\ lastNo = 3
    /\ pc[1] = "done"

\* ---- C7 ---------------------------------------------------------------------
\* C7: the capture loop attempts at most one send on a handle that a reconnect
\* has superseded: it is never about to send again on a handle on which it
\* already attempted a send after the new connection was produced.
C7_CaptureObservesNewHandle ==
    (cpc = "send" /\ capWs # Latest) => capWs \notin staleTried

\* ---- C8 ---------------------------------------------------------------------
\* C8: while a receive thread is reconnecting, the audio stream is neither
\* closed nor reopened, unless the capture loop is recovering from a device
\* read error.
C8_AudioUntouchedDuringReconnect ==
    [][((\E h \in Handles : Reconnecting(h)) /\ capErr # "device")
            => stream' = stream]_vars

\* ---- C9 ---------------------------------------------------------------------
\* The number of receive threads inside their loop, and of capture threads
\* that are running.
ReceiveLoops == Cardinality({h \in Handles : InReceiveLoop(h)})
CaptureLoops == IF cpc \in {"unstarted", "dead"} THEN 0 ELSE 1

\* C9: at most one receive loop and at most one capture loop are live, and
\* while a thread reconnects no receive thread is inside its loop.
C9_AtMostOneLoopEach ==
    /\ ReceiveLoops <= 1
    /\ CaptureLoops <= 1
    /\ (\E h \in Handles : Reconnecting(h)) => ReceiveLoops = 0

\* After a reconnect the new receive loop runs, the old receive thread has
\* ended and the capture loop runs.
C9_Witness ==
    /\ pc[1] = "done"
    /\ \E h \in Handles \ {1} : InReceiveLoop(h)
    /\ cpc \in {"read", "send"}

\* ---- C10 --------------------------------------------------------------------
\* C10: at most one handle has an open socket at any time.
C10_AtMostOneOpenHandle == Cardinality(wsOpen) <= 1

\* ---- C11 --------------------------------------------------------------------
\* Thread t is inside connect_and_transcribe (lines 128-148).
Connecting(t) == pc[t] \in {"cc_create", "cc_start"}

\* The receive threads started in this step.
NewReceiveThreads == {h \in Handles : pc[h] = "unstarted" /\ pc'[h] # "unstarted"}

Restarting == cpc \in {"restart_close", "restart_open"}

\* C12: a read error makes one call of restart_stream; the call closes the
\* open stream, then reopens it and resumes the loop at the read, with the
\* same ws; no step of the recovery makes a further call, touches a socket or
\* a receive thread's handle.
C12_DeviceErrorRestartsOnce ==
    [][/\ (cpc = "read" /\ cpc' # "read" /\ cpc' # "send")
            => (cpc' = "restart_close" /\ restarts' = restarts + 1
                    /\ stream' = stream /\ capErr' = "device")
       /\ (capErr = "device" /\ cpc = "restart_close" /\ cpc' # cpc)
            => (stream = "open" /\ stream' = "closed" /\ cpc' = "restart_open"
                    /\ restarts' = restarts)
       /\ (capErr = "device" /\ cpc = "restart_open" /\ stream' = "open")
            => (cpc' = "read" /\ restarts' = restarts)
       /\ (capErr = "device" /\ Restarting /\ cpc' # cpc)
            => (capWs' = capWs /\ wsOpen' = wsOpen /\ cws' = cws
                    /\ attempts' = attempts /\ pc' = pc)]_vars

\* After one restart for a read error the loop is about to send on its
\* handle, which is still open.
C12_Witness ==
    /\ restarts = 1
    /\ staleTried = {}
    /\ cpc = "send"
    /\ stream = "open"
    /\ capWs \in wsOpen
    /\ capWs = Latest

\* ---- C13 --------------------------------------------------------------------
\* on_closing has run to its end: the window is destroyed.
Closed == pc[0] \in {"destroyed", "exited"}

\* C13: a call of on_closing never ends before it has closed the session, and
\* once the session is closed the audio stream is closed and no socket is
\* open.
C13_ShutdownReleasesAll ==
    /\ pc[0] # "oc_raised"
    /\ Closed => (stream = "closed" /\ wsOpen = {})

\* ---- C14 --------------------------------------------------------------------
\* on_closing has released the audio device (line 266 has run).
DeviceReleased == pc[0] \in {"oc_terminate", "destroyed", "exited"}

\* C14: once on_closing has released the audio device, the capture thread and
\* the receive threads take no further step: the stream is not reopened, no
\* frame is sent, no display command is applied and no connection attempt is
\* made.
C14_LoopsStopAfterShutdown ==
    [][DeviceReleased
        => /\ cpc' = cpc
           /\ \A h \in Handles : pc'[h] = pc[h]
           /\ stream' = stream
           /\ out' = out
           /\ display' = display
           /\ attempts' = attempts]_vars


\* ---- C15 --------------------------------------------------------------------
\* C15: no failure ends a loop: the capture thread is never ended by an
\* exception nothing handles, and a receive thread only finishes after it has
\* handed its connection over to a fresh receive thread.
C15_NoLoopTerminated ==
    /\ cpc # "dead"
    /\ \A h \in Handles : pc[h] = "done" => \E g \in Handles : g > h /\ pc[g] # "unstarted"

\* ---- C16 --------------------------------------------------------------------
\* A step in which ws.send of the capture loop fails on a closed socket.
SendFailureStep == cpc = "send" /\ capWs \notin wsOpen /\ cpc' # "send"

\* C16: a failed send ends the capture loop: the step neither enters
\* restart_stream nor returns to the loop, the audio stream is not touched
\* on account of a send failure, and no step of the capture thread creates
\* a connection or moves a connecting thread.
C16_SendFailureExitsLoop ==
    [][/\ SendFailureStep => cpc' \notin {"restart_close", "restart_open", "read"}
       /\ capErr = "send" => stream' = stream
       /\ (cpc # "unstarted" /\ cpc' # cpc) =>
             (attempts' = attempts /\ cws' = cws /\ pc' = pc)]_vars

\* ---- C17 --------------------------------------------------------------------
\* A step in which connect_and_transcribe leaves line 140 for line 143.
StartSent(t) == pc[t] = "cc_start" /\ pc'[t] \notin {"cc_start", "cc_create"}

\* C17: the start message goes out once per connection and first: it is sent
\* on a handle that has not had one, a receive thread exists only for a
\* handle whose start message was sent, the capture loop holds and sends on
\* such a handle only, and a handle whose start message failed gets no
\* thread and is never the global ws.
C17_StartMessageFirst ==
    [][/\ \A t \in Threads :
             StartSent(t) => (cws[t] \notin wsStarted /\ cws[t] \in wsStarted'
                              /\ pc[cws[t]] = "unstarted")
       /\ \A h \in Handles : (h \in wsStarted' \ wsStarted) =>
             \E t \in Threads : StartSent(t) /\ cws[t] = h
       /\ \A h \in Handles : pc'[h] # "unstarted" => h \in wsStarted'
       /\ ws' # 0 => ws' \in wsStarted'
       /\ cpc' # "unstarted" => capWs' \in wsStarted'
       /\ (cpc = "send" /\ cpc' # "send") => capWs \in wsStarted]_vars

\* The start message failed on the first handle; the second one is streaming.
C17_Witness ==
    /\ attempts = 2
    /\ wsStarted = {2}
    /\ pc[1] = "unstarted"
    /\ InReceiveLoop(2)
    /\ cpc = "send"
    /\ capWs = 2
    /\ staleTried = {}

\* ---- C18 --------------------------------------------------------------------
\* Calls of listen_and_stream and restart_stream that have not returned in the
\* capture thread: every handled error adds a restart_stream frame and, once
\* the stream is reopened, a listen_and_stream frame.
CaptureDepth ==
    IF cpc \in {"read", "send"} THEN 2 * restarts + 1
    ELSE IF cpc \in {"restart_close", "restart_open"} THEN 2 * restarts
    ELSE 0

\* Calls of receive_transcription and connect_and_transcribe that have not
\* returned in receive thread h.
ReceiveDepth(h) ==
    IF pc[h] \in {"recv", "process", "sleep"} THEN 1
    ELSE IF pc[h] \in {"cc_create", "cc_start"} THEN 2
    ELSE 0

\* C18: recovery does not grow the stack: a thread is never deeper than its
\* loop plus one recovery call.
C18_StackDepthBounded ==
    /\ CaptureDepth <= 2
    /\ \A h \in Handles : ReceiveDepth(h) <= 2

\* ---- C19 --------------------------------------------------------------------
\* C19: a decoded message without a results field is skipped: no display
\* command, last_partial, last_final and the display unchanged, the thread
\* back at ws.recv() on its handle, no socket closed or created.
C19_NoResultsSkipped ==
    [][\A h \in Handles :
          (ProcessStep(h) /\ result[h].kind = "noresults") =>
             /\ out'.by = h /\ out'.cmds = <<>>
             /\ UNCHANGED <<last_partial, last_final, display>>
             /\ pc'[h] = "recv"
             /\ wsOpen' = wsOpen
             /\ attempts' = attempts]_vars

\* A message without results has just been skipped on an open handle.
C19_Witness ==
    \E h \in Handles :
        /\ out.by = h
        /\ out.msg.kind = "noresults"
        /\ pc[h] = "recv"
        /\ h \in wsOpen
        /\ resultNo[h] = nrecv
        /\ display # << <<>> >>

====
